---- MODULE Spec2Model ----
(***************************************************************************)
(* A model of package modules (each.go): the recursive walk of a directory *)
(* tree that calls a function for every directory holding a go.mod file,   *)
(* and the adapters EachGomod, LoadEach and LoadEachGomod built on it.     *)
(*                                                                         *)
(* A file name is a sequence of one-character strings, a path is a         *)
(* sequence of names (filepath.Join appends a name).  An error value is a  *)
(* record: kind is the innermost error, ctx the Wrapf contexts around it   *)
(* (outermost first), errs the members of an errors.Join.                  *)
(***************************************************************************)
EXTENDS Naturals, Sequences, FiniteSets, TLC

VARIABLES
  w,        \* the Walker: its configuration fields
  fsys,     \* the directory tree
  start,    \* the directory the method is called on
  entry,    \* the method of Walker that is called
  pc,       \* "idle" before the call, "running" during it, "done" after it
  conf,     \* LoadEach's local conf, captured by its closure
  stack,    \* the activations of each, innermost last
  ret,      \* the value an activation of each has just returned, or NoRet
  result,   \* the error the called method returned
  loaded,   \* what packages.Load answered, by directory loaded from
  log       \* history: the file system calls, loads, parses and callbacks

vars == <<w, fsys, start, entry, pc, conf, stack, ret, result, loaded, log>>

(***************************************************************************)
(* Bounds of the model.                                                    *)
(***************************************************************************)
\* The most go.mod files in a tree walked by Walker.Each.
MaxMods == 4
\* The most go.mod files in a tree walked by EachGomod, LoadEach and
\* LoadEachGomod.
MaxAdapterMods == 2
\* The most go.mod files in a tree when Walker.Each is called on any
\* directory of it.
MaxStartMods == 3

(***************************************************************************)
(* Names and paths.                                                        *)
(***************************************************************************)
RootName == <<"r", "o", "o", "t">>
DotGit == <<".", "g", "i", "t">>
UnderX == <<"_", "x">>
NameA == <<"a">>
NameB == <<"b">>
Vendor == <<"v", "e", "n", "d", "o", "r">>
Testdata == <<"t", "e", "s", "t", "d", "a", "t", "a">>
GoMod == <<"g", "o", ".", "m", "o", "d">>

\* The byte value of the characters the names use.
Code ==
  [c \in {".", "_", "a", "b", "d", "e", "g", "i", "m", "n", "o", "r", "s",
          "t", "v", "x"} |->
     CASE c = "." -> 46 [] c = "_" -> 95 [] c = "a" -> 97 [] c = "b" -> 98
       [] c = "d" -> 100 [] c = "e" -> 101 [] c = "g" -> 103
       [] c = "i" -> 105 [] c = "m" -> 109 [] c = "n" -> 110
       [] c = "o" -> 111 [] c = "r" -> 114 [] c = "s" -> 115
       [] c = "t" -> 116 [] c = "v" -> 118 [] c = "x" -> 120]

\* strings.HasPrefix(s, prefix)
HasPrefix(s, prefix) ==
  /\ Len(s) >= Len(prefix)
  /\ SubSeq(s, 1, Len(prefix)) = prefix

\* filepath.Join(dir, name), for a clean dir and a single name
Join(dir, name) == Append(dir, name)

\* The order of file names in a directory listing: bytewise, as os.ReadDir
\* sorts them.
RECURSIVE NameLess(_, _)
NameLess(a, b) ==
  IF a = <<>> THEN b # <<>>
  ELSE IF b = <<>> THEN FALSE
  ELSE IF Code[Head(a)] # Code[Head(b)] THEN Code[Head(a)] < Code[Head(b)]
  ELSE NameLess(Tail(a), Tail(b))

\* The names of a set, in listing order.
RECURSIVE SortNames(_)
SortNames(S) ==
  IF S = {} THEN <<>>
  ELSE LET least == CHOOSE n \in S : \A m \in S \ {n} : NameLess(n, m)
       IN <<least>> \o SortNames(S \ {least})

\* p is dir or lies beneath dir
IsUnder(p, dir) ==
  /\ Len(p) >= Len(dir)
  /\ SubSeq(p, 1, Len(dir)) = dir

\* The directories from which a tree is drawn.
Root == <<RootName>>
AllDirs ==
  { Root,
    <<RootName, DotGit>>, <<RootName, DotGit, NameA>>,
    <<RootName, UnderX>>,
    <<RootName, NameA>>, <<RootName, NameA, Vendor>>,
    <<RootName, NameB>>, <<RootName, NameB, Testdata>>,
    <<RootName, Vendor>>, <<RootName, Vendor, NameA>> }

\* The directories on the way from the root to the directories of S.
Closure(S) == { d \in AllDirs : \E m \in S \cup {Root} : IsUnder(m, d) }

\* The trees with at most n go.mod files: mods are the directories that
\* hold one, dirs those directories and the ones on the way to them.  A
\* go.mod, where there is one, is a regular file, and a directory holds
\* directories and go.mod only.
Trees(n) ==
  { [dirs |-> Closure(M), mods |-> M] :
      M \in { S \in SUBSET AllDirs : Cardinality(S) <= n } }

(***************************************************************************)
(* Errors.                                                                 *)
(***************************************************************************)
MkErr(kind) == [kind |-> kind, ctx |-> <<>>, errs |-> <<>>]
Nil == MkErr("nil")
SkipDir == MkErr("SkipDir")
SkipAll == MkErr("SkipAll")
NoRet == MkErr("none")

\* errors.Wrapf(err, format, path): the cause is kept, the context is added
\* in front.
Wrapf(err, msg, path) == [err EXCEPT !.ctx = <<<<msg, path>>>> \o @]

\* errors.Is(err, target) for the sentinels SkipDir and SkipAll: the chain of
\* wrapped errors is searched, so the contexts do not matter.
Is(err, target) == err.kind = target.kind

(***************************************************************************)
(* The walker and its collaborators.                                       *)
(***************************************************************************)
ZeroMode == {}
CustomMode == {"NeedName", "NeedFiles"}
DefaultLoadMode ==
  {"NeedName", "NeedFiles", "NeedImports", "NeedDeps", "NeedTypes",
   "NeedSyntax", "NeedTypesInfo", "NeedTypesSizes", "NeedModule",
   "NeedEmbedFiles", "NeedEmbedPatterns"}
NoDir == <<>>
zeroLoadConfig == [Mode |-> ZeroMode, Tests |-> FALSE, Dir |-> NoDir]
DefaultLoadConfig == [Mode |-> DefaultLoadMode, Tests |-> FALSE, Dir |-> NoDir]

\* The values of Walker.LoadConfig tried: the zero config, a config that
\* sets Tests and leaves Mode zero, a config with a mode of its own.
LoadConfigs ==
  { zeroLoadConfig,
    [Mode |-> ZeroMode, Tests |-> TRUE, Dir |-> NoDir],
    [Mode |-> CustomMode, Tests |-> FALSE, Dir |-> NoDir] }

\* The Walker values a call is made on.  The fields a method does not read
\* are left at their zero value.
Walker(method) ==
  [IncludeVendor : BOOLEAN,
   IncludeTestdata : BOOLEAN,
   ParseLax : IF method \in {"EachGomod", "LoadEachGomod"}
              THEN BOOLEAN ELSE {FALSE},
   LoadConfig : IF method \in {"LoadEach", "LoadEachGomod"}
                THEN LoadConfigs ELSE {zeroLoadConfig},
   FailOnPackageErrors : IF method \in {"LoadEach", "LoadEachGomod"}
                         THEN BOOLEAN ELSE {FALSE}]

\* What the callback supplied by the caller may return.
Results == {Nil, SkipDir, SkipAll, MkErr("callback")}

\* The contents a go.mod file may have: accepted by modfile.Parse, accepted
\* by modfile.ParseLax only, accepted by neither.
ManifestKinds == {"valid", "laxonly", "invalid"}

\* modfile.Parse and modfile.ParseLax on contents of the given kind.
Parse(kind) == IF kind = "valid" THEN Nil ELSE MkErr("parse")
ParseLax(kind) ==
  IF kind \in {"valid", "laxonly"} THEN Nil ELSE MkErr("parse")

\* A loaded package, and the answers packages.Load may give for a directory:
\* a failure of the loader, or a list of packages with their errors.
Pkg(dir, k, errs) == [PkgPath |-> <<dir, k>>, Errors |-> errs]
LoadAnswers(dir) ==
  { [err |-> MkErr("load"), pkgs |-> <<>>],
    [err |-> Nil, pkgs |-> <<Pkg(dir, 1, <<>>)>>],
    [err |-> Nil, pkgs |-> <<Pkg(dir, 1, <<"e1">>)>>],
    [err |-> Nil, pkgs |-> <<Pkg(dir, 1, <<"e1", "e2">>), Pkg(dir, 2, <<>>),
                            Pkg(dir, 3, <<"e3">>)>>] }

\* os.ReadDir(dir): the entries of dir sorted by name.
ReadDir(dir) ==
  LET subdirs == { d[Len(d)] : d \in { x \in fsys.dirs :
                       Len(x) = Len(dir) + 1 /\ IsUnder(x, dir) } }
      files == IF dir \in fsys.mods THEN {GoMod} ELSE {}
      names == SortNames(subdirs \cup files)
  IN [k \in 1..Len(names) |->
        [Name |-> names[k], IsDir |-> names[k] \in subdirs]]

\* An activation of each: phase is the statement it is at.
Frame(dir) == [dir |-> dir, phase |-> "stat", entries |-> <<>>, i |-> 1]

Top == stack[Len(stack)]
Pop == SubSeq(stack, 1, Len(stack) - 1)
SetTop(f) == [stack EXCEPT ![Len(stack)] = f]
Running == pc = "running" /\ ret = NoRet /\ stack # <<>>

\* An entry of the log.
Event(op, dir, res, arg) == [op |-> op, dir |-> dir, res |-> res, arg |-> arg]

\* What a handler did: the events it adds to the log and the error it
\* returns.
Outcome(events, err) == [events |-> events, err |-> err]
After(events, outcomes) ==
  { Outcome(events \o o.events, o.err) : o \in outcomes }

Init ==
  /\ entry \in {"Each", "EachGomod", "LoadEach", "LoadEachGomod"}
  /\ w \in Walker(entry)
  /\ fsys \in Trees(IF entry = "Each" THEN MaxMods ELSE MaxAdapterMods)
  /\ start = Root
  /\ pc = "idle"
  /\ conf = zeroLoadConfig
  /\ stack = <<>>
  /\ ret = NoRet
  /\ result = NoRet
  /\ loaded = <<>>
  /\ log = <<>>

(***************************************************************************)
(* The calls.                                                              *)
(***************************************************************************)
\* Variant of CallEach: the directory the walk starts at is passed over
\* when its name is one the loop of each passes over.
CallEachNameChecked ==
  /\ pc = "idle"
  /\ entry = "Each"
  /\ pc' = "running"
  /\ LET name == start[Len(start)]
     IN IF \/ HasPrefix(name, <<".">>) \/ HasPrefix(name, <<"_">>)
           \/ ~w.IncludeVendor /\ name = Vendor
           \/ ~w.IncludeTestdata /\ name = Testdata
        THEN stack' = <<>> /\ ret' = Nil
        ELSE stack' = <<Frame(start)>> /\ ret' = ret
  /\ UNCHANGED <<w, fsys, start, entry, conf, result, loaded, log>>

\* Walker.Each is called on the start directory: w.each(dir, f) begins.
CallEach ==
  /\ pc = "idle"
  /\ entry = "Each"
  /\ pc' = "running"
  /\ stack' = <<Frame(start)>>
  /\ UNCHANGED <<w, fsys, start, entry, conf, ret, result, loaded, log>>

\* Walker.EachGomod is called on the start directory: it calls w.Each with a closure.
CallEachGomod ==
  /\ pc = "idle"
  /\ entry = "EachGomod"
  /\ pc' = "running"
  /\ stack' = <<Frame(start)>>
  /\ UNCHANGED <<w, fsys, start, entry, conf, ret, result, loaded, log>>

isZeroConfig(c) == c = zeroLoadConfig

\* Walker.LoadEach: the conf its closure loads with.
LoadEachConf(dir) ==
  LET c1 == IF isZeroConfig(w.LoadConfig) THEN DefaultLoadConfig
            ELSE w.LoadConfig
      c2 == IF c1.Mode = ZeroMode THEN [c1 EXCEPT !.Mode = DefaultLoadMode]
            ELSE c1
  IN [c2 EXCEPT !.Dir = dir]

\* Variant of CallLoadEach: conf is w.LoadConfig itself and not a copy of
\* it.
CallLoadEachInPlace ==
  /\ pc = "idle"
  /\ entry \in {"LoadEach", "LoadEachGomod"}
  /\ conf' = LoadEachConf(start)
  /\ w' = [w EXCEPT !.LoadConfig = LoadEachConf(start)]
  /\ pc' = "running"
  /\ stack' = <<Frame(start)>>
  /\ UNCHANGED <<fsys, start, entry, ret, result, loaded, log>>

\* Walker.LoadEach is called on the start directory (by the caller, or by
\* Walker.LoadEachGomod with its closure).
CallLoadEach ==
  /\ pc = "idle"
  /\ entry \in {"LoadEach", "LoadEachGomod"}
  /\ conf' = LoadEachConf(start)
  /\ pc' = "running"
  /\ stack' = <<Frame(start)>>
  /\ UNCHANGED <<w, fsys, start, entry, ret, result, loaded, log>>

(***************************************************************************)
(* each.                                                                   *)
(***************************************************************************)
\* Variant of Stat: the callback is called whether go.mod is there or not.
StatAbsentVisited ==
  /\ Running
  /\ Top.phase = "stat"
  /\ LET dir == Top.dir
         gomodPath == Join(dir, GoMod)
     IN \/ /\ dir \notin fsys.mods
           /\ stack' = SetTop([Top EXCEPT !.phase = "visit"])
           /\ ret' = ret
           /\ log' = Append(log, Event("stat", dir, MkErr("notexist"), gomodPath))
        \/ /\ dir \in fsys.mods
           /\ stack' = SetTop([Top EXCEPT !.phase = "visit"])
           /\ ret' = ret
           /\ log' = Append(log, Event("stat", dir, Nil, gomodPath))
        \/ /\ stack' = Pop
           /\ ret' = Wrapf(MkErr("stat"), "statting", gomodPath)
           /\ log' = Append(log, Event("stat", dir, MkErr("stat"), gomodPath))
  /\ UNCHANGED <<w, fsys, start, entry, pc, conf, result, loaded>>

\* each: os.Stat of dir/go.mod and the switch on its error.
Stat ==
  /\ Running
  /\ Top.phase = "stat"
  /\ LET dir == Top.dir
         gomodPath == Join(dir, GoMod)
     IN \/ /\ dir \notin fsys.mods      \* fs.ErrNotExist: no go.mod, skip
           /\ stack' = SetTop([Top EXCEPT !.phase = "readdir"])
           /\ ret' = ret
           /\ log' = Append(log, Event("stat", dir, MkErr("notexist"), gomodPath))
        \/ /\ dir \in fsys.mods
           /\ stack' = SetTop([Top EXCEPT !.phase = "visit"])
           /\ ret' = ret
           /\ log' = Append(log, Event("stat", dir, Nil, gomodPath))
        \/ /\ stack' = Pop              \* any other error
           /\ ret' = Wrapf(MkErr("stat"), "statting", gomodPath)
           /\ log' = Append(log, Event("stat", dir, MkErr("stat"), gomodPath))
  /\ UNCHANGED <<w, fsys, start, entry, pc, conf, result, loaded>>

\* Variants of eachAfterF: SkipDir taken for nil; the error returned as it
\* came, without its context.
eachAfterFDescends(err, dir) ==
  IF Is(err, SkipDir) \/ err = Nil THEN NoRet
  ELSE Wrapf(err, "in", dir)
eachAfterFUnwrapped(err, dir) ==
  IF Is(err, SkipDir) THEN Nil
  ELSE IF err # Nil THEN err
  ELSE NoRet

\* each: the switch on the error f(dir) returned.  The value is what each
\* returns, or NoRet when each goes on to read the directory.
eachAfterF(err, dir) ==
  IF Is(err, SkipDir) THEN Nil
  ELSE IF err # Nil THEN Wrapf(err, "in", dir)
  ELSE NoRet

\* each goes on after f(dir) has done what outcome o says.
Visited(o) ==
  LET r == eachAfterF(o.err, Top.dir)
  IN /\ log' = log \o o.events
     /\ IF r = NoRet
        THEN /\ stack' = SetTop([Top EXCEPT !.phase = "readdir"])
             /\ ret' = ret
        ELSE /\ stack' = Pop
             /\ ret' = r

\* The caller's callback is called and returns what it likes.
Callback(dir, mf, pkgs) ==
  { Outcome(<<Event("call", dir, r, [mf |-> mf, pkgs |-> pkgs])>>, r) :
      r \in Results }

\* each: f(dir), for the f of Walker.Each's caller.
VisitEach ==
  /\ Running
  /\ Top.phase = "visit"
  /\ entry = "Each"
  /\ \E o \in Callback(Top.dir, NoDir, <<>>) : Visited(o)
  /\ UNCHANGED <<w, fsys, start, entry, pc, conf, result, loaded>>

\* Variant of List: a failure of os.ReadDir is taken for an empty directory.
ListFailureIgnored ==
  /\ Running
  /\ Top.phase = "readdir"
  /\ \/ /\ stack' = SetTop([Top EXCEPT !.phase = "loop",
                                       !.entries = ReadDir(Top.dir)])
        /\ ret' = ret
        /\ log' = Append(log, Event("list", Top.dir, Nil, NoDir))
     \/ /\ stack' = Pop
        /\ ret' = Nil
        /\ log' = Append(log, Event("list", Top.dir, MkErr("readdir"), NoDir))
  /\ UNCHANGED <<w, fsys, start, entry, pc, conf, result, loaded>>

\* each: os.ReadDir(dir).
List ==
  /\ Running
  /\ Top.phase = "readdir"
  /\ \/ /\ stack' = SetTop([Top EXCEPT !.phase = "loop",
                                       !.entries = ReadDir(Top.dir)])
        /\ ret' = ret
        /\ log' = Append(log, Event("list", Top.dir, Nil, NoDir))
     \/ /\ stack' = Pop
        /\ ret' = Wrapf(MkErr("readdir"), "reading directory", Top.dir)
        /\ log' = Append(log, Event("list", Top.dir, MkErr("readdir"), NoDir))
  /\ UNCHANGED <<w, fsys, start, entry, pc, conf, result, loaded>>

\* Variants of Skipped: vendor passed over whatever IncludeVendor is; the
\* two flags taken for one another; no test for '_'; no test for testdata.
SkippedVendorAlways(e) ==
  \/ ~e.IsDir
  \/ HasPrefix(e.Name, <<".">>) \/ HasPrefix(e.Name, <<"_">>)
  \/ e.Name = Vendor
  \/ ~w.IncludeTestdata /\ e.Name = Testdata
SkippedFlagsSwapped(e) ==
  \/ ~e.IsDir
  \/ HasPrefix(e.Name, <<".">>) \/ HasPrefix(e.Name, <<"_">>)
  \/ ~w.IncludeTestdata /\ e.Name = Vendor
  \/ ~w.IncludeVendor /\ e.Name = Testdata
SkippedNoUnderscore(e) ==
  \/ ~e.IsDir
  \/ HasPrefix(e.Name, <<".">>)
  \/ ~w.IncludeVendor /\ e.Name = Vendor
  \/ ~w.IncludeTestdata /\ e.Name = Testdata
SkippedNoTestdata(e) ==
  \/ ~e.IsDir
  \/ HasPrefix(e.Name, <<".">>) \/ HasPrefix(e.Name, <<"_">>)
  \/ ~w.IncludeVendor /\ e.Name = Vendor

\* each: does the loop over the entries pass over this one?
Skipped(e) ==
  \/ ~e.IsDir
  \/ HasPrefix(e.Name, <<".">>) \/ HasPrefix(e.Name, <<"_">>)
  \/ ~w.IncludeVendor /\ e.Name = Vendor
  \/ ~w.IncludeTestdata /\ e.Name = Testdata

\* Variant of Loop: an entry that is not passed over may be left out, as
\* if the entries came in an order that changes from run to run.
LoopMaySkip ==
  /\ Running
  /\ Top.phase = "loop"
  /\ IF Top.i > Len(Top.entries) THEN
       /\ stack' = Pop
       /\ ret' = Nil
     ELSE
       LET e == Top.entries[Top.i]
           next == [Top EXCEPT !.i = @ + 1]
       IN /\ \/ stack' = IF Skipped(e) THEN SetTop(next)
                         ELSE Append(SetTop(next),
                                     Frame(Join(Top.dir, e.Name)))
             \/ stack' = SetTop(next)
          /\ ret' = ret
  /\ UNCHANGED <<w, fsys, start, entry, pc, conf, result, loaded, log>>

\* Variant of Loop: an entry that is passed over is looked at again.
LoopStuck ==
  /\ Running
  /\ Top.phase = "loop"
  /\ IF Top.i > Len(Top.entries) THEN
       /\ stack' = Pop
       /\ ret' = Nil
     ELSE
       LET e == Top.entries[Top.i]
           next == [Top EXCEPT !.i = @ + 1]
       IN /\ stack' = IF Skipped(e) THEN stack
                      ELSE Append(SetTop(next), Frame(Join(Top.dir, e.Name)))
          /\ ret' = ret
  /\ UNCHANGED <<w, fsys, start, entry, pc, conf, result, loaded, log>>

\* each: one iteration of the loop over the entries, or the end of the loop.
Loop ==
  /\ Running
  /\ Top.phase = "loop"
  /\ IF Top.i > Len(Top.entries) THEN
       /\ stack' = Pop
       /\ ret' = Nil
     ELSE
       LET e == Top.entries[Top.i]
           next == [Top EXCEPT !.i = @ + 1]
       IN /\ stack' = IF Skipped(e) THEN SetTop(next)
                      ELSE Append(SetTop(next), Frame(Join(Top.dir, e.Name)))
          /\ ret' = ret
  /\ UNCHANGED <<w, fsys, start, entry, pc, conf, result, loaded, log>>

\* Variant of Return: the loop goes on whatever the recursive call returned.
ReturnErrorDropped ==
  /\ pc = "running"
  /\ ret # NoRet
  /\ stack # <<>>
  /\ stack' = stack
  /\ ret' = NoRet
  /\ UNCHANGED <<w, fsys, start, entry, pc, conf, result, loaded, log>>

\* each: the recursive call w.each(...) returns into the loop.
Return ==
  /\ pc = "running"
  /\ ret # NoRet
  /\ stack # <<>>
  /\ IF ret # Nil THEN
       /\ stack' = Pop
       /\ ret' = ret
     ELSE
       /\ stack' = stack
       /\ ret' = NoRet
  /\ UNCHANGED <<w, fsys, start, entry, pc, conf, result, loaded, log>>

\* Variant of EachResult: SkipAll is not filtered out.
EachResultUnfiltered(err) == err

\* Walker.Each: what it returns for the error of w.each.
EachResult(err) == IF Is(err, SkipAll) THEN Nil ELSE err

\* Walker.Each: w.each returned; the adapters return what Walker.Each does.
EachReturn ==
  /\ pc = "running"
  /\ ret # NoRet
  /\ stack = <<>>
  /\ result' = EachResult(ret)
  /\ pc' = "done"
  /\ ret' = NoRet
  /\ UNCHANGED <<w, fsys, start, entry, conf, stack, loaded, log>>

(***************************************************************************)
(* The adapters' closures.                                                 *)
(***************************************************************************)
\* Variants of withGomod: the error of the parser is not looked at; a
\* SkipDir of the callback is not passed on.
withGomodParseUnchecked(subdir, pkgs) ==
  LET gomodPath == Join(subdir, GoMod)
      read(res) == Event("readfile", subdir, res, gomodPath)
      parse(res) == Event("parse", subdir, res, gomodPath)
      parsed(kind) == IF w.ParseLax THEN ParseLax(kind) ELSE Parse(kind)
  IN {Outcome(<<read(MkErr("readfile"))>>,
              Wrapf(MkErr("readfile"), "reading", gomodPath))}
     \cup UNION {
       After(<<read(Nil), parse(parsed(kind))>>,
             Callback(subdir, gomodPath, pkgs))
       : kind \in ManifestKinds }

withGomodSkipDirDropped(subdir, pkgs) ==
  LET gomodPath == Join(subdir, GoMod)
      read(res) == Event("readfile", subdir, res, gomodPath)
      parse(res) == Event("parse", subdir, res, gomodPath)
      parsed(kind) == IF w.ParseLax THEN ParseLax(kind) ELSE Parse(kind)
  IN {Outcome(<<read(MkErr("readfile"))>>,
              Wrapf(MkErr("readfile"), "reading", gomodPath))}
     \cup UNION {
       IF parsed(kind) # Nil
       THEN {Outcome(<<read(Nil), parse(parsed(kind))>>,
                     Wrapf(parsed(kind), "parsing", gomodPath))}
       ELSE { Outcome(<<read(Nil), parse(Nil)>> \o o.events,
                      IF Is(o.err, SkipDir) THEN Nil ELSE o.err) :
                o \in Callback(subdir, gomodPath, pkgs) }
       : kind \in ManifestKinds }

\* withGomod(dir, subdir, f), where f passes pkgs along to the caller's
\* callback.
withGomod(subdir, pkgs) ==
  LET gomodPath == Join(subdir, GoMod)
      read(res) == Event("readfile", subdir, res, gomodPath)
      parse(res) == Event("parse", subdir, res, gomodPath)
      parsed(kind) == IF w.ParseLax THEN ParseLax(kind) ELSE Parse(kind)
  IN {Outcome(<<read(MkErr("readfile"))>>,
              Wrapf(MkErr("readfile"), "reading", gomodPath))}
     \cup UNION {
       IF parsed(kind) # Nil
       THEN {Outcome(<<read(Nil), parse(parsed(kind))>>,
                     Wrapf(parsed(kind), "parsing", gomodPath))}
       ELSE After(<<read(Nil), parse(Nil)>>,
                  Callback(subdir, gomodPath, pkgs))
       : kind \in ManifestKinds }

\* each: f(dir), for the closure of Walker.EachGomod.
VisitGomod ==
  /\ Running
  /\ Top.phase = "visit"
  /\ entry = "EachGomod"
  /\ \E o \in withGomod(Top.dir, <<>>) : Visited(o)
  /\ UNCHANGED <<w, fsys, start, entry, pc, conf, result, loaded>>

\* Variant of JoinErr: the error joined last replaces the earlier ones.
JoinErrLastOnly(err, e) == [kind |-> "join", ctx |-> <<>>, errs |-> <<e>>]

\* errors.Join(err, e), the members kept in the order they were joined.
JoinErr(err, e) ==
  IF err = Nil THEN [kind |-> "join", ctx |-> <<>>, errs |-> <<e>>]
  ELSE [err EXCEPT !.errs = Append(@, e)]

PackageLoadError(pkgPath, err) == [PkgPath |-> pkgPath, Err |-> err]

\* The closure of Walker.LoadEach: the two loops that join the errors of
\* the packages, from package k and its error j on.
RECURSIVE JoinPackageErrors(_, _, _, _)
JoinPackageErrors(pkgs, k, j, err) ==
  IF k > Len(pkgs) THEN err
  ELSE IF j > Len(pkgs[k].Errors) THEN JoinPackageErrors(pkgs, k + 1, 1, err)
  ELSE JoinPackageErrors(pkgs, k, j + 1,
         JoinErr(err, PackageLoadError(pkgs[k].PkgPath, pkgs[k].Errors[j])))

\* packages.Load(&conf, "./..."): the same directory gets the same answer.
Load(c) ==
  IF c.Dir \in DOMAIN loaded THEN {loaded[c.Dir]} ELSE LoadAnswers(c.Dir)

\* Variants of loadEachClosure: the error of packages.Load is not looked
\* at; the errors of the packages abort whatever FailOnPackageErrors is.
loadEachClosureLoadUnchecked(subdir, answer, inner) ==
  LET load == Event("load", subdir, answer.err,
                    [conf |-> conf, pkgs |-> answer.pkgs])
      joined == JoinPackageErrors(answer.pkgs, 1, 1, Nil)
  IN IF w.FailOnPackageErrors /\ joined # Nil
     THEN {Outcome(<<load>>, joined)}
     ELSE After(<<load>>, inner)
loadEachClosureAlwaysFails(subdir, answer, inner) ==
  LET load == Event("load", subdir, answer.err,
                    [conf |-> conf, pkgs |-> answer.pkgs])
      joined == JoinPackageErrors(answer.pkgs, 1, 1, Nil)
  IN IF answer.err # Nil
     THEN {Outcome(<<load>>,
                   Wrapf(answer.err, "loading packages in", subdir))}
     ELSE IF joined # Nil
     THEN {Outcome(<<load>>, joined)}
     ELSE After(<<load>>, inner)

\* The closure of Walker.LoadEach, called for subdir, packages.Load having
\* given answer; inner is what the function f it calls in the end does when
\* given the packages of the answer.
loadEachClosure(subdir, answer, inner) ==
  LET load == Event("load", subdir, answer.err,
                    [conf |-> conf, pkgs |-> answer.pkgs])
      joined == JoinPackageErrors(answer.pkgs, 1, 1, Nil)
  IN IF answer.err # Nil
     THEN {Outcome(<<load>>,
                   Wrapf(answer.err, "loading packages in", subdir))}
     ELSE IF w.FailOnPackageErrors /\ joined # Nil
     THEN {Outcome(<<load>>, joined)}
     ELSE After(<<load>>, inner)

\* each: f(dir), for the closure of Walker.LoadEach around the caller's
\* callback.
VisitLoad ==
  /\ Running
  /\ Top.phase = "visit"
  /\ entry = "LoadEach"
  /\ \E answer \in Load(conf) :
       /\ loaded' = (conf.Dir :> answer) @@ loaded
       /\ \E o \in loadEachClosure(Top.dir, answer,
                                   Callback(Top.dir, NoDir, answer.pkgs)) :
            Visited(o)
  /\ UNCHANGED <<w, fsys, start, entry, pc, conf, result>>

\* each: f(dir), for the closure of Walker.LoadEach around the closure of
\* Walker.LoadEachGomod.
VisitLoadGomod ==
  /\ Running
  /\ Top.phase = "visit"
  /\ entry = "LoadEachGomod"
  /\ \E answer \in Load(conf) :
       /\ loaded' = (conf.Dir :> answer) @@ loaded
       /\ \E o \in loadEachClosure(Top.dir, answer,
                                   withGomod(Top.dir, answer.pkgs)) :
            Visited(o)
  /\ UNCHANGED <<w, fsys, start, entry, pc, conf, result>>

(***************************************************************************)
(* The earlier Walker.LoadEach, configured by the fields LoadMode and      *)
(* LoadTests.                                                              *)
(***************************************************************************)
\* The Walker values that LoadEach is called on.
WalkerByMode ==
  [IncludeVendor : BOOLEAN,
   IncludeTestdata : BOOLEAN,
   ParseLax : {FALSE},
   LoadMode : {ZeroMode, CustomMode},
   LoadTests : BOOLEAN,
   FailOnPackageErrors : BOOLEAN]

\* LoadEach: its local loadMode, which nothing reads after it is set.
loadMode == IF w.LoadMode = ZeroMode THEN DefaultLoadMode ELSE w.LoadMode

\* The closure of LoadEach: the packages.Config it builds for subdir.
LoadEachByModeConf(subdir) ==
  [Dir |-> subdir, Mode |-> w.LoadMode, Tests |-> w.LoadTests]

\* The closure of LoadEach: the two loops that join the errors of the
\* packages, each wrapped with the path of its package.
RECURSIVE JoinWrappedPackageErrors(_, _, _, _)
JoinWrappedPackageErrors(pkgs, k, j, err) ==
  IF k > Len(pkgs) THEN err
  ELSE IF j > Len(pkgs[k].Errors)
  THEN JoinWrappedPackageErrors(pkgs, k + 1, 1, err)
  ELSE JoinWrappedPackageErrors(pkgs, k, j + 1,
         JoinErr(err, Wrapf(MkErr(pkgs[k].Errors[j]), "loading package",
                            pkgs[k].PkgPath)))

\* The closure of LoadEach, called for subdir with the config c it built,
\* packages.Load having given answer.
loadEachByModeClosure(subdir, c, answer) ==
  LET load == Event("load", subdir, answer.err,
                    [conf |-> c, pkgs |-> answer.pkgs])
      joined == JoinWrappedPackageErrors(answer.pkgs, 1, 1, Nil)
  IN IF answer.err # Nil
     THEN {Outcome(<<load>>,
                   Wrapf(answer.err, "loading packages in", subdir))}
     ELSE IF w.FailOnPackageErrors /\ joined # Nil
     THEN {Outcome(<<load>>, joined)}
     ELSE After(<<load>>, Callback(subdir, NoDir, answer.pkgs))

\* LoadEach is called on the start directory: it calls w.Each with its closure.
CallLoadEachByMode ==
  /\ pc = "idle"
  /\ entry = "LoadEachByMode"
  /\ pc' = "running"
  /\ stack' = <<Frame(start)>>
  /\ UNCHANGED <<w, fsys, start, entry, conf, ret, result, loaded, log>>

\* each: f(dir), for the closure of LoadEach.
VisitLoadByMode ==
  /\ Running
  /\ Top.phase = "visit"
  /\ entry = "LoadEachByMode"
  /\ conf' = LoadEachByModeConf(Top.dir)
  /\ \E answer \in Load(conf') :
       /\ loaded' = (conf'.Dir :> answer) @@ loaded
       /\ \E o \in loadEachByModeClosure(Top.dir, conf', answer) : Visited(o)
  /\ UNCHANGED <<w, fsys, start, entry, pc, result>>

Next ==
  \/ CallEach
  \/ CallEachGomod
  \/ CallLoadEach
  \/ Stat
  \/ VisitEach
  \/ VisitGomod
  \/ VisitLoad
  \/ VisitLoadGomod
  \/ List
  \/ Loop
  \/ Return
  \/ EachReturn

Spec == Init /\ [][Next]_vars

\* Walker.LoadEach as it is now and as it was, side by side.
InitLoadEach ==
  /\ entry \in {"LoadEach", "LoadEachByMode"}
  /\ w \in IF entry = "LoadEach" THEN Walker(entry) ELSE WalkerByMode
  /\ fsys \in Trees(MaxAdapterMods)
  /\ start = Root
  /\ pc = "idle"
  /\ conf = zeroLoadConfig
  /\ stack = <<>>
  /\ ret = NoRet
  /\ result = NoRet
  /\ loaded = <<>>
  /\ log = <<>>

NextLoadEach ==
  \/ CallLoadEach
  \/ CallLoadEachByMode
  \/ Stat
  \/ VisitLoad
  \/ VisitLoadByMode
  \/ List
  \/ Loop
  \/ Return
  \/ EachReturn

SpecLoadEach == InitLoadEach /\ [][NextLoadEach]_vars

\* Walker.Each alone, called on any directory of the tree.  The call is
\* one goroutine that runs each statement it comes to, so a step that can
\* be taken is taken.
InitEach ==
  /\ entry = "Each"
  /\ w \in Walker(entry)
  /\ start \in AllDirs
  /\ fsys \in { t \in Trees(MaxStartMods) : start \in t.dirs }
  /\ pc = "idle"
  /\ conf = zeroLoadConfig
  /\ stack = <<>>
  /\ ret = NoRet
  /\ result = NoRet
  /\ loaded = <<>>
  /\ log = <<>>

NextEach ==
  \/ CallEach
  \/ Stat
  \/ VisitEach
  \/ List
  \/ Loop
  \/ Return
  \/ EachReturn

SpecEach == InitEach /\ [][NextEach]_vars /\ WF_vars(NextEach)

(***************************************************************************)
(* Vocabulary of the properties.                                           *)
(***************************************************************************)
\* The callback invocations made so far, in order, and their directories.
Calls == SelectSeq(log, LAMBDA e : e.op = "call")
CallDirs == [k \in 1..Len(Calls) |-> Calls[k].dir]
CalledSet == { Calls[k].dir : k \in 1..Len(Calls) }
\* The directories examined (go.mod statted) and listed so far.
StattedSet == { log[k].dir : k \in { i \in 1..Len(log) : log[i].op = "stat" } }
ListedSet ==
  { log[k].dir : k \in { i \in 1..Len(log) :
                           log[i].op = "list" /\ log[i].res = Nil } }

Done == pc = "done"
Beneath(p, dir) == IsUnder(p, dir) /\ p # dir
Parent(d) == SubSeq(d, 1, Len(d) - 1)

\* Every callback so far returned one of the results of R.
CallsReturned(R) == \A k \in 1..Len(Calls) : Calls[k].res \in R
\* No call of the file system, the loader or the parser failed so far.
NoFailure ==
  \A k \in 1..Len(log) :
    log[k].op # "call" => log[k].res.kind \in {"nil", "notexist"}

\* A child directory of this name is walked into under the configuration.
NameEligible(n) ==
  /\ Head(n) \notin {".", "_"}
  /\ n = Vendor => w.IncludeVendor
  /\ n = Testdata => w.IncludeTestdata
\* d is the directory the walk starts at or is reached from it through
\* eligible children.
Reached(d) ==
  /\ IsUnder(d, start)
  /\ \A k \in (Len(start) + 1)..Len(d) : NameEligible(d[k])
\* The module roots the walk can reach.
EligibleMods == { d \in fsys.mods : Reached(d) }

(***************************************************************************)
(* C1.  As claimed: when every callback returns nil and nothing fails,     *)
(* Walker.Each calls the callback exactly N times, N the number of         *)
(* directories of the tree that hold a go.mod, each time with another path *)
(* at or beneath the root.                                                 *)
(***************************************************************************)
C1_Distinct ==
  /\ \A i, j \in 1..Len(Calls) : i # j => Calls[i].dir # Calls[j].dir
  /\ \A i \in 1..Len(Calls) : IsUnder(Calls[i].dir, start)

C1_EveryManifestCounted ==
  (Done /\ entry = "Each" /\ result = Nil /\ CallsReturned({Nil}) /\ NoFailure)
    => /\ Len(Calls) = Cardinality(fsys.mods)
       /\ C1_Distinct

\* C1 amended: N counts only the directories with a go.mod that are the root
\* or are reached from it through children whose names do not begin with
\* '.' or '_' and are not vendor (unless IncludeVendor) or testdata (unless
\* IncludeTestdata).
C1_EligibleManifestsCounted ==
  (Done /\ entry = "Each" /\ result = Nil /\ CallsReturned({Nil}) /\ NoFailure)
    => /\ Len(Calls) = Cardinality(EligibleMods)
       /\ C1_Distinct

C1_Witness ==
  /\ Done /\ entry = "Each" /\ result = Nil /\ CallsReturned({Nil}) /\ NoFailure
  /\ Len(Calls) = 3
  /\ Cardinality(fsys.mods) = 4
  /\ \E d \in CalledSet : Len(d) = 3

(***************************************************************************)
(* C2.  Once a callback has returned filepath.SkipAll, at whatever depth,  *)
(* no callback is invoked again, and the call returns nil.                 *)
(***************************************************************************)
C2_SkipAllStops ==
  \A k \in 1..Len(Calls) :
    Is(Calls[k].res, SkipAll)
      => /\ k = Len(Calls)
         /\ Done => result = Nil

C2_Witness ==
  /\ Done /\ entry = "Each" /\ result = Nil
  /\ Len(Calls) = 2
  /\ Is(Calls[2].res, SkipAll)
  /\ Len(Calls[2].dir) = 3
  /\ \E d \in EligibleMods : d \notin CalledSet

(***************************************************************************)
(* C3.  After a callback returned filepath.SkipDir at D, no callback is    *)
(* invoked beneath D; and a walk in which the callbacks return only nil or *)
(* SkipDir and nothing fails returns nil, having visited every module root *)
(* it can reach that is not beneath a directory where SkipDir was          *)
(* returned (so the siblings of D and the other branches of its ancestors).*)
(***************************************************************************)
SkipDirSet ==
  { Calls[k].dir : k \in { i \in 1..Len(Calls) : Is(Calls[i].res, SkipDir) } }

C3_SkipDirPrunesOnlyItsSubtree ==
  /\ \A d \in CalledSet : \A s \in SkipDirSet : ~Beneath(d, s)
  /\ (Done /\ entry = "Each" /\ CallsReturned({Nil, SkipDir}) /\ NoFailure)
       => /\ result = Nil
          /\ CalledSet =
               { d \in EligibleMods : \A s \in SkipDirSet : ~Beneath(d, s) }

C3_Witness ==
  /\ Done /\ entry = "Each" /\ result = Nil /\ NoFailure
  /\ Len(Calls) = 2
  /\ Calls[1].dir = <<RootName, NameA>> /\ Is(Calls[1].res, SkipDir)
  /\ Calls[2].dir = <<RootName, NameB>>
  /\ <<RootName, NameA, Vendor>> \in EligibleMods

(***************************************************************************)
(* C4.  No directory named vendor, or beneath one, is examined, listed or  *)
(* passed to a callback unless IncludeVendor is set, and likewise for      *)
(* testdata and IncludeTestdata, at every depth; and in a walk that runs   *)
(* to its end a vendor directory next to listed entries is examined        *)
(* exactly if IncludeVendor is set, a testdata directory exactly if        *)
(* IncludeTestdata is set.                                                 *)
(***************************************************************************)
C4_VendorTestdataFlags ==
  /\ \A k \in 1..Len(log) : \A n \in 2..Len(log[k].dir) :
       /\ log[k].dir[n] = Vendor => w.IncludeVendor
       /\ log[k].dir[n] = Testdata => w.IncludeTestdata
  /\ (Done /\ result = Nil /\ CallsReturned({Nil, SkipDir}) /\ NoFailure)
       => \A d \in fsys.dirs \ {Root} :
            Parent(d) \in ListedSet =>
              /\ d[Len(d)] = Vendor => (d \in StattedSet <=> w.IncludeVendor)
              /\ d[Len(d)] = Testdata
                   => (d \in StattedSet <=> w.IncludeTestdata)

C4_Witness ==
  /\ Done /\ entry = "Each" /\ result = Nil /\ NoFailure
  /\ w.IncludeVendor /\ ~w.IncludeTestdata
  /\ <<RootName, NameA, Vendor>> \in CalledSet
  /\ <<RootName, NameB, Testdata>> \in fsys.mods
  /\ <<RootName, NameB>> \in ListedSet

(***************************************************************************)
(* C5.  Whatever IncludeVendor and IncludeTestdata are, no directory whose *)
(* name begins with '.' or '_', and nothing beneath one, is examined,      *)
(* listed or passed to a callback.                                         *)
(***************************************************************************)
C5_DotUnderscoreNeverEntered ==
  \A k \in 1..Len(log) : \A n \in 2..Len(log[k].dir) :
    Head(log[k].dir[n]) \notin {".", "_"}

C5_Witness ==
  /\ Done /\ entry = "Each" /\ result = Nil /\ NoFailure
  /\ w.IncludeVendor /\ w.IncludeTestdata
  /\ fsys.mods = { Root, <<RootName, DotGit>>, <<RootName, DotGit, NameA>>,
                   <<RootName, UnderX>> }
  /\ CallDirs = <<Root>>
  /\ Root \in ListedSet

(***************************************************************************)
(* C6.  The callbacks come in depth-first pre-order: the one for a module  *)
(* root D before those for the module roots beneath D, and once a callback *)
(* has been made outside the subtree of a child directory, after one       *)
(* inside it, none is made inside it again.  On the tree root/go.mod,      *)
(* root/a/go.mod, root/a/vendor/go.mod, root/b/testdata/go.mod, with the   *)
(* zero Walker, the callbacks are for root, then root/a, and no others.    *)
(***************************************************************************)
ScenarioTree ==
  [dirs |-> { Root, <<RootName, NameA>>, <<RootName, NameA, Vendor>>,
              <<RootName, NameB>>, <<RootName, NameB, Testdata>> },
   mods |-> { Root, <<RootName, NameA>>, <<RootName, NameA, Vendor>>,
              <<RootName, NameB, Testdata>> }]

\* The subtrees p lies in, other than that of the root.
SubtreesOf(p) == { SubSeq(p, 1, n) : n \in 2..Len(p) }

C6_PreOrder ==
  /\ \A i, j \in 1..Len(Calls) :
       Beneath(Calls[j].dir, Calls[i].dir) => i < j
  /\ \A i, j, k \in 1..Len(Calls) :
       (i < j /\ j < k) =>
         \A t \in SubtreesOf(Calls[i].dir) :
           ~IsUnder(Calls[j].dir, t) => ~IsUnder(Calls[k].dir, t)
  /\ (Done /\ entry = "Each" /\ fsys = ScenarioTree
        /\ ~w.IncludeVendor /\ ~w.IncludeTestdata
        /\ CallsReturned({Nil}) /\ NoFailure)
       => CallDirs = <<Root, <<RootName, NameA>>>>

C6_Witness ==
  /\ Done /\ entry = "Each" /\ fsys = ScenarioTree
  /\ ~w.IncludeVendor /\ ~w.IncludeTestdata
  /\ CallsReturned({Nil}) /\ NoFailure /\ result = Nil
  /\ CallDirs = <<Root, <<RootName, NameA>>>>
  /\ <<RootName, NameB>> \in ListedSet

(***************************************************************************)
(* C7.  In EachGomod (and LoadEachGomod), when the go.mod of a module root *)
(* D fails to parse, the caller's callback is invoked neither for D nor    *)
(* for anything after it, and the call returns the parse error wrapped     *)
(* with the path of the go.mod as context (and then with D, by each).      *)
(***************************************************************************)
C7_ParseFailureAborts ==
  \A k \in 1..Len(log) :
    (log[k].op = "parse" /\ log[k].res # Nil) =>
      /\ \A j \in 1..Len(log) : log[j].op = "call" => j < k
      /\ log[k].dir \notin CalledSet
      /\ Done =>
           /\ result # Nil
           /\ result.kind = "parse"
           /\ result.ctx = << <<"in", log[k].dir>>,
                              <<"parsing", Join(log[k].dir, GoMod)>> >>

C7_Witness ==
  /\ Done /\ entry = "EachGomod"
  /\ result.kind = "parse"
  /\ fsys.mods = { <<RootName, NameA>>, <<RootName, NameB>> }
  /\ \E k \in 1..Len(log) :
       /\ log[k].op = "parse" /\ log[k].res # Nil
       /\ log[k].dir = <<RootName, NameA>>
  /\ Calls = <<>>

(***************************************************************************)
(* C8.  In LoadEach (and LoadEachGomod) with FailOnPackageErrors set, when *)
(* the packages loaded at a module root D carry errors, the callback is    *)
(* invoked neither for D nor for anything after it, and the call returns a *)
(* join of exactly those errors, each with the PkgPath of its package.     *)
(***************************************************************************)
PackageErrorsOf(pkgs) ==
  UNION { { [PkgPath |-> pkgs[p].PkgPath, Err |-> pkgs[p].Errors[j]] :
              j \in 1..Len(pkgs[p].Errors) } : p \in 1..Len(pkgs) }

C8_PackageErrorsAbort ==
  \A k \in 1..Len(log) :
    (/\ log[k].op = "load" /\ log[k].res = Nil
     /\ w.FailOnPackageErrors
     /\ \E p \in 1..Len(log[k].arg.pkgs) : log[k].arg.pkgs[p].Errors # <<>>) =>
      /\ \A j \in 1..Len(log) : log[j].op = "call" => j < k
      /\ log[k].dir \notin CalledSet
      /\ Done =>
           /\ result.kind = "join"
           /\ { result.errs[m] : m \in 1..Len(result.errs) }
                = PackageErrorsOf(log[k].arg.pkgs)
           /\ Len(result.errs) = Cardinality(PackageErrorsOf(log[k].arg.pkgs))

C8_Witness ==
  /\ Done /\ entry = "LoadEach" /\ w.FailOnPackageErrors
  /\ result.kind = "join" /\ Len(result.errs) = 3
  /\ fsys.mods = { <<RootName, NameA>>, <<RootName, NameB>> }
  /\ log[Len(log)].op = "load" /\ log[Len(log)].dir = <<RootName, NameA>>
  /\ Calls = <<>>

(***************************************************************************)
(* C9.  In LoadEach and LoadEachGomod the loader is called, at every       *)
(* module root D, with D as the directory to load from, and the packages   *)
(* passed to the callback with D are those loaded from D.                  *)
(***************************************************************************)
C9_LoadsFromModuleRoot ==
  \A k \in 1..Len(log) :
    /\ log[k].op = "load" => log[k].arg.conf.Dir = log[k].dir
    /\ (log[k].op = "call" /\ entry \in {"LoadEach", "LoadEachGomod"}) =>
         \A p \in 1..Len(log[k].arg.pkgs) :
           log[k].arg.pkgs[p].PkgPath[1] = log[k].dir

(***************************************************************************)
(* C10.  When a callback returns an error other than SkipDir and SkipAll   *)
(* at a module root D, nothing more is examined, listed, loaded or called, *)
(* and the call returns that error wrapped with D as its context.          *)
(***************************************************************************)
C10_CallbackErrorAborts ==
  \A k \in 1..Len(log) :
    (log[k].op = "call" /\ log[k].res.kind = "callback") =>
      /\ k = Len(log)
      /\ Done =>
           /\ result # Nil
           /\ result = Wrapf(log[k].res, "in", log[k].dir)
           /\ result.ctx = << <<"in", log[k].dir>> >>

C10_Witness ==
  /\ Done /\ entry = "Each"
  /\ Len(Calls) = 2
  /\ Calls[2].res.kind = "callback"
  /\ Len(Calls[2].dir) = 3
  /\ result.kind = "callback"
  /\ \E d \in EligibleMods : d \notin CalledSet

(***************************************************************************)
(* C11.  In LoadEachGomod, at every module root, the packages are loaded   *)
(* first (and their errors checked under FailOnPackageErrors), then go.mod *)
(* is read and parsed, then the callback is called with the directory, the *)
(* parsed go.mod and the packages: go.mod is read only after a load that   *)
(* succeeded, the callback is called only after a parse that succeeded,    *)
(* and a failure of the load, the read or the parse ends the walk with an  *)
(* error.                                                                  *)
(***************************************************************************)
HasPackageErrors(pkgs) == \E p \in 1..Len(pkgs) : pkgs[p].Errors # <<>>

C11_LoadThenParseThenCall ==
  entry = "LoadEachGomod" =>
    \A k \in 1..Len(log) :
      /\ log[k].op = "load" =>
           /\ k > 1
           /\ log[k-1].op = "stat" /\ log[k-1].res = Nil
           /\ log[k-1].dir = log[k].dir
      /\ log[k].op = "readfile" =>
           /\ k > 1
           /\ log[k-1].op = "load" /\ log[k-1].res = Nil
           /\ log[k-1].dir = log[k].dir
           /\ w.FailOnPackageErrors => ~HasPackageErrors(log[k-1].arg.pkgs)
      /\ log[k].op = "parse" =>
           /\ k > 1
           /\ log[k-1].op = "readfile" /\ log[k-1].res = Nil
           /\ log[k-1].dir = log[k].dir
      /\ log[k].op = "call" =>
           /\ k > 3
           /\ log[k-1].op = "parse" /\ log[k-1].res = Nil
           /\ log[k-1].dir = log[k].dir
           /\ log[k].arg.mf = Join(log[k].dir, GoMod)
           /\ log[k].arg.pkgs = log[k-3].arg.pkgs
      /\ (\/ log[k].op \in {"load", "readfile", "parse"} /\ log[k].res # Nil
          \/ /\ log[k].op = "load" /\ w.FailOnPackageErrors
             /\ HasPackageErrors(log[k].arg.pkgs)) =>
           /\ k = Len(log)
           /\ Done => result # Nil

C11_Witness ==
  /\ Done /\ entry = "LoadEachGomod" /\ w.FailOnPackageErrors
  /\ fsys.mods = { <<RootName, NameA>>, <<RootName, NameB>> }
  /\ Len(Calls) = 1 /\ Calls[1].dir = <<RootName, NameA>>
  /\ Calls[1].res = Nil
  /\ log[Len(log)].op = "parse" /\ log[Len(log)].dir = <<RootName, NameB>>
  /\ result.kind = "parse"

(***************************************************************************)
(* C12.  In LoadEach, when the mode configured on the Walker is zero, the  *)
(* mode given to packages.Load at every module root is the default mode,   *)
(* and the other configured fields (Tests) are given as configured; when   *)
(* it is not zero, it is given as configured.  This is so for the LoadEach *)
(* configured by LoadConfig and for the one configured by LoadMode and     *)
(* LoadTests.                                                              *)
(***************************************************************************)
ConfiguredMode ==
  IF entry = "LoadEachByMode" THEN w.LoadMode ELSE w.LoadConfig.Mode
ConfiguredTests ==
  IF entry = "LoadEachByMode" THEN w.LoadTests ELSE w.LoadConfig.Tests

ModeDefaulted ==
  \A k \in 1..Len(log) :
    log[k].op = "load" =>
      /\ log[k].arg.conf.Mode # ZeroMode
      /\ log[k].arg.conf.Mode =
           IF ConfiguredMode = ZeroMode THEN DefaultLoadMode
           ELSE ConfiguredMode
      /\ log[k].arg.conf.Tests = ConfiguredTests

C12_ModeDefaulted == ModeDefaulted

\* The part of C12 about the LoadEach configured by LoadConfig.
C12_LoadConfigModeDefaulted == entry = "LoadEach" => ModeDefaulted

(***************************************************************************)
(* The walk as the documentation describes it: depth first, a directory    *)
(* before the directories beneath it, the eligible children of a directory *)
(* in the order of their names; the callback is called at the directories  *)
(* that hold a go.mod and answers sig[d] at d.  dirs are the directories   *)
(* it is called at, in order, seen the directories it comes to; end is nil *)
(* when the walk of the subtree goes on to what comes next, and otherwise  *)
(* what the callback answered to end the walk.                             *)
(***************************************************************************)
EligibleChildren(dir) ==
  SortNames({ d[Len(d)] : d \in { x \in fsys.dirs :
                 /\ Len(x) = Len(dir) + 1
                 /\ IsUnder(x, dir)
                 /\ NameEligible(x[Len(x)]) } })

RECURSIVE WalkOrder(_, _)
RECURSIVE WalkChildren(_, _, _, _)
WalkOrder(dir, sig) ==
  LET here == IF dir \in fsys.mods THEN <<dir>> ELSE <<>>
      r == IF dir \in fsys.mods THEN sig[dir] ELSE Nil
  IN IF Is(r, SkipDir) THEN [seen |-> <<dir>>, dirs |-> here, end |-> Nil]
     ELSE IF r # Nil THEN [seen |-> <<dir>>, dirs |-> here, end |-> r]
     ELSE LET below == WalkChildren(dir, EligibleChildren(dir), 1, sig)
          IN [seen |-> <<dir>> \o below.seen,
              dirs |-> here \o below.dirs,
              end |-> below.end]
WalkChildren(dir, names, k, sig) ==
  IF k > Len(names) THEN [seen |-> <<>>, dirs |-> <<>>, end |-> Nil]
  ELSE LET first == WalkOrder(Join(dir, names[k]), sig)
           rest == WalkChildren(dir, names, k + 1, sig)
       IN IF first.end # Nil THEN first
          ELSE [seen |-> first.seen \o rest.seen,
                dirs |-> first.dirs \o rest.dirs,
                end |-> rest.end]

\* What the callback answered at d in this run, nil where it was not called.
Signal(d) ==
  IF d \in CalledSet
  THEN CHOOSE r \in Results : \E k \in 1..Len(Calls) :
         Calls[k].dir = d /\ Calls[k].res = r
  ELSE Nil
Signals == [d \in fsys.dirs |-> Signal(d)]

(***************************************************************************)
(* C13.  On the same tree, with callbacks that answer the same at the same *)
(* directories, and with every load, read and parse succeeding, Each,      *)
(* EachGomod, LoadEach and LoadEachGomod call their callbacks at the same  *)
(* sequence of directories and all return nil or all return an error: a    *)
(* run of any of the four calls exactly the directories that the walk      *)
(* described above calls for the answers of that run, and returns nil      *)
(* exactly if that walk ends without an error.                             *)
(***************************************************************************)
LoadingSucceeds ==
  \A k \in 1..Len(log) :
    (log[k].op = "load" /\ w.FailOnPackageErrors)
      => ~HasPackageErrors(log[k].arg.pkgs)

C13_SameWalkInAllEntryPoints ==
  (Done /\ NoFailure /\ LoadingSucceeds) =>
    LET walk == WalkOrder(start, Signals)
    IN /\ CallDirs = walk.dirs
       /\ result = Nil <=> (walk.end = Nil \/ Is(walk.end, SkipAll))

C13_Witness ==
  /\ Done /\ entry = "LoadEachGomod" /\ NoFailure /\ LoadingSucceeds
  /\ w.IncludeVendor
  /\ fsys.mods = { <<RootName, NameA>>, <<RootName, NameA, Vendor>> }
  /\ Len(Calls) = 1 /\ Is(Calls[1].res, SkipDir)
  /\ result = Nil

(***************************************************************************)
(* C14.  When every callback returns nil and nothing fails, Walker.Each    *)
(* calls the callback at exactly the directories that hold a go.mod and    *)
(* are the directory it was called on or are reached from it through       *)
(* eligible children.  The directory it was called on is examined whatever *)
(* its name is; a directory without go.mod is not called but is listed,    *)
(* and a directory with go.mod is listed too, so that the module roots     *)
(* beneath either are found.                                               *)
(***************************************************************************)
C14_CalledExactlyEligibleManifests ==
  (Done /\ entry = "Each" /\ CallsReturned({Nil}) /\ NoFailure) =>
    /\ CalledSet = EligibleMods
    /\ start \in StattedSet
    /\ StattedSet = { d \in fsys.dirs : Reached(d) }
    /\ ListedSet = { d \in fsys.dirs : Reached(d) }

C14_Witness ==
  /\ Done /\ entry = "Each" /\ CallsReturned({Nil}) /\ NoFailure
  /\ ~w.IncludeVendor
  /\ start = <<RootName, Vendor>>
  /\ CallDirs = << <<RootName, Vendor>>, <<RootName, Vendor, NameA>> >>
  /\ <<RootName, NameA>> \in fsys.mods

C14_WitnessNoManifest ==
  /\ Done /\ entry = "Each" /\ CallsReturned({Nil}) /\ NoFailure
  /\ start = <<RootName, DotGit>>
  /\ start \notin fsys.mods
  /\ CallDirs = << <<RootName, DotGit, NameA>> >>

(***************************************************************************)
(* C15.  A go.mod that is not there is never an error: the directory is    *)
(* listed next.  A failure of os.Stat on go.mod other than not-exist, and  *)
(* a failure of os.ReadDir on any directory the walk comes to (the one it  *)
(* starts at too), end the walk: nothing is examined, listed or called     *)
(* after it, the callback is not called at the directory whose stat        *)
(* failed, and Walker.Each returns an error that carries the path.         *)
(***************************************************************************)
C15_AbsentManifestNoErrorFailuresAbort ==
  \A k \in 1..Len(log) :
    /\ (log[k].op = "stat" /\ log[k].res.kind = "notexist") =>
         /\ k < Len(log) =>
              log[k+1].op = "list" /\ log[k+1].dir = log[k].dir
         /\ Done => result.kind # "notexist"
    /\ (log[k].op = "stat" /\ log[k].res.kind = "stat") =>
         /\ k = Len(log)
         /\ log[k].dir \notin CalledSet
         /\ Done => /\ result # Nil
                    /\ result.kind = "stat"
                    /\ result.ctx = << <<"statting", Join(log[k].dir, GoMod)>> >>
    /\ (log[k].op = "list" /\ log[k].res # Nil) =>
         /\ k = Len(log)
         /\ Done => /\ result # Nil
                    /\ result.kind = "readdir"
                    /\ result.ctx = << <<"reading directory", log[k].dir>> >>

C15_Witness ==
  /\ Done /\ entry = "Each"
  /\ fsys.mods = { <<RootName, NameA, Vendor>>, <<RootName, NameB>> }
  /\ w.IncludeVendor
  /\ CallDirs = << <<RootName, NameA, Vendor>> >>
  /\ log[Len(log)] = Event("stat", <<RootName, NameB>>, MkErr("stat"),
                           <<RootName, NameB, GoMod>>)
  /\ result.kind = "stat"

C15_WitnessList ==
  /\ Done /\ entry = "Each"
  /\ Calls = <<>>
  /\ Root \notin fsys.mods
  /\ Len(log) = 2 /\ log[1].res.kind = "notexist"
  /\ log[2] = Event("list", Root, MkErr("readdir"), NoDir)
  /\ result.kind = "readdir"

(***************************************************************************)
(* C16.  When a walk is ended by a failure (an error of the callback, of   *)
(* os.Stat or os.ReadDir, of the read or the parse of go.mod, of the       *)
(* loader, or package errors under FailOnPackageErrors), the callbacks     *)
(* made are a prefix of those the walk of the same tree would make if the  *)
(* callback had answered nil instead of an error: they are exactly the     *)
(* module roots that the walk comes to before the directory of the         *)
(* failure, and that directory too if the callback was called there.       *)
(***************************************************************************)
FailureAt(k) ==
  \/ log[k].res.kind \notin {"nil", "notexist", "SkipDir", "SkipAll"}
  \/ /\ log[k].op = "load" /\ w.FailOnPackageErrors
     /\ HasPackageErrors(log[k].arg.pkgs)

SignalsWithoutFailure ==
  [d \in fsys.dirs |->
     IF Signal(d) \in {Nil, SkipDir, SkipAll} THEN Signal(d) ELSE Nil]

IsPrefix(s, t) == Len(s) <= Len(t) /\ SubSeq(t, 1, Len(s)) = s

C16_CallsBeforeAbortArePrefix ==
  \A k \in 1..Len(log) :
    FailureAt(k) =>
      LET walk == WalkOrder(start, SignalsWithoutFailure)
          at == log[k].dir
          m == CHOOSE i \in 1..Len(walk.seen) : walk.seen[i] = at
          before == SelectSeq(SubSeq(walk.seen, 1, m - 1),
                              LAMBDA d : d \in fsys.mods)
      IN /\ \E i \in 1..Len(walk.seen) : walk.seen[i] = at
         /\ CallDirs = before \o (IF at \in CalledSet THEN <<at>> ELSE <<>>)
         /\ IsPrefix(CallDirs, walk.dirs)
         /\ Done => result # Nil

C16_Witness ==
  /\ Done /\ entry = "LoadEachGomod" /\ result # Nil
  /\ w.IncludeVendor
  /\ fsys.mods = { <<RootName, NameA, Vendor>>, <<RootName, NameB>> }
  /\ CallDirs = << <<RootName, NameA, Vendor>> >>
  /\ log[Len(log)].op = "parse" /\ log[Len(log)].dir = <<RootName, NameB>>

(***************************************************************************)
(* C17.  In LoadEach without FailOnPackageErrors the errors of the         *)
(* packages never end the walk: at every module root where packages.Load   *)
(* succeeds, the callback is called next, with the directory and all the   *)
(* packages loaded, those with errors too.  A failure of packages.Load     *)
(* ends the walk, whatever FailOnPackageErrors is, with an error that      *)
(* names the directory, and the callback is not called at that directory.  *)
(***************************************************************************)
C17_PackageErrorsPassedLoadFailureAborts ==
  entry = "LoadEach" =>
    /\ (Done /\ ~w.FailOnPackageErrors) => result.kind # "join"
    /\ \A k \in 1..Len(log) :
         /\ (log[k].op = "load" /\ log[k].res = Nil
                /\ ~w.FailOnPackageErrors) =>
              /\ k < Len(log)
              /\ log[k+1].op = "call"
              /\ log[k+1].dir = log[k].dir
              /\ log[k+1].arg.pkgs = log[k].arg.pkgs
         /\ (log[k].op = "load" /\ log[k].res # Nil) =>
              /\ k = Len(log)
              /\ log[k].dir \notin CalledSet
              /\ Done =>
                   /\ result.kind = "load"
                   /\ result.ctx = << <<"in", log[k].dir>>,
                                      <<"loading packages in", log[k].dir>> >>

C17_Witness ==
  /\ Done /\ entry = "LoadEach" /\ ~w.FailOnPackageErrors
  /\ result = Nil
  /\ fsys.mods = { <<RootName, NameA>>, <<RootName, NameB>> }
  /\ Len(Calls) = 2
  /\ Len(Calls[1].arg.pkgs) = 3
  /\ HasPackageErrors(Calls[1].arg.pkgs)
  /\ Calls[1].res = Nil /\ Calls[2].res = Nil

C17_WitnessLoadFailure ==
  /\ Done /\ entry = "LoadEach" /\ w.FailOnPackageErrors
  /\ result.kind = "load"
  /\ Calls = <<>>
  /\ log[Len(log)].op = "load" /\ log[Len(log)].dir = <<RootName, NameA>>

(***************************************************************************)
(* C18.  No step of Each, EachGomod, LoadEach or LoadEachGomod changes a   *)
(* field of the Walker: IncludeVendor, IncludeTestdata, ParseLax,          *)
(* LoadConfig (its Mode and Dir too) and FailOnPackageErrors are after the *)
(* call, however it ended, what they were before it.                       *)
(***************************************************************************)
C18_WalkerUnchanged == [][w' = w]_vars

C18_Witness ==
  /\ Done /\ entry = "LoadEach" /\ result # Nil
  /\ w.LoadConfig = zeroLoadConfig
  /\ conf.Dir = start /\ conf.Mode = DefaultLoadMode
  /\ Len(Calls) = 2

(***************************************************************************)
(* C19.  On a finite tree, with callbacks that return, Walker.Each comes   *)
(* to its end: it returns nil or an error, and it has listed no directory  *)
(* more than once.                                                         *)
(***************************************************************************)
ListedOnce ==
  \A i, j \in 1..Len(log) :
    (log[i].op = "list" /\ log[j].op = "list" /\ log[i].dir = log[j].dir)
      => i = j

C19_Terminates == <>(Done /\ result # NoRet) /\ []ListedOnce

C19_Witness ==
  /\ Done /\ entry = "Each" /\ result = Nil
  /\ w.IncludeVendor /\ w.IncludeTestdata
  /\ Cardinality(fsys.mods) = 3
  /\ Cardinality(ListedSet) >= 5
  /\ ListedSet = { d \in fsys.dirs : Reached(d) }

(***************************************************************************)
(* C20.  At every moment of a walk, whatever the callbacks have returned   *)
(* (nil, SkipDir, SkipAll or an error), no directory has been passed to    *)
(* the callback twice, and every directory passed to it is the directory   *)
(* the walk started at or lies beneath it, and holds a go.mod.             *)
(***************************************************************************)
C20_CalledOnceAtManifestsUnderRoot ==
  \A i \in 1..Len(Calls) :
    /\ Calls[i].dir \in fsys.mods
    /\ IsUnder(Calls[i].dir, start)
    /\ \A j \in 1..Len(Calls) : Calls[j].dir = Calls[i].dir => j = i

C20_Witness ==
  /\ entry = "Each"
  /\ Len(Calls) = 3
  /\ Calls[1].res = Nil
  /\ Is(Calls[2].res, SkipDir)
  /\ Calls[3].res.kind = "callback"
  /\ Len(Calls[2].dir) = 3
  /\ fsys.dirs # fsys.mods

(***************************************************************************)
(* C21.  Walker.Each is deterministic: the directories it calls the        *)
(* callback at, their order and what it returns are fixed by the tree, the *)
(* directory it is called on, the flags of the Walker and the function g   *)
(* that says what the callback answers at each directory.  So a run that   *)
(* nothing fails in is the same as every other run with a callback that    *)
(* answers as the callback of this run did: for every such g its calls are *)
(* those of the walk of g, the children of a directory in the order of the *)
(* listing, and its result is nil when that walk ends with nil or SkipAll  *)
(* and else the error of the callback with the directory as its context.   *)
(***************************************************************************)
\* The functions the callback of this run may be: they answer as it did at
\* the directories it was called at, and anything at the other directories
\* that hold a go.mod.
CallbacksOfRun ==
  { [d \in fsys.mods |-> IF d \in CalledSet THEN Signal(d) ELSE h[d]] :
      h \in [fsys.mods \ CalledSet -> Results] }

\* What Walker.Each returns for a walk.
ResultOfWalk(walk) ==
  IF walk.end = Nil \/ Is(walk.end, SkipAll) THEN Nil
  ELSE Wrapf(walk.end, "in", walk.dirs[Len(walk.dirs)])

C21_Deterministic ==
  (Done /\ entry = "Each" /\ NoFailure) =>
    \A g \in CallbacksOfRun :
      LET walk == WalkOrder(start, g)
      IN /\ CallDirs = walk.dirs
         /\ result = ResultOfWalk(walk)

C21_Witness ==
  /\ Done /\ entry = "Each" /\ NoFailure
  /\ start = Root /\ w.IncludeVendor
  /\ fsys.mods = { <<RootName, NameA>>, <<RootName, NameB>>,
                   <<RootName, Vendor, NameA>> }
  /\ CallDirs = << <<RootName, NameA>>, <<RootName, NameB>> >>
  /\ Calls[1].res = Nil
  /\ Calls[2].res.kind = "callback"
  /\ result = Wrapf(MkErr("callback"), "in", <<RootName, NameB>>)
  /\ Cardinality(CallbacksOfRun) > 1

====
